---------------------------- MODULE Spec2Model ----------------------------
(***************************************************************************)
(* Model of prog2/analysis.py: the script walks the grid                   *)
(* number_sizes x n_procs, reads results/n<size>-p<procs>.txt, computes    *)
(* the mean and the population standard deviation of the numbers in it and *)
(* prints a four-line block.                                               *)
(*                                                                         *)
(* Text is modelled at character level where the script looks inside it or *)
(* makes it character by character (a line of a file and a formatted       *)
(* number are sequences of one-character strings, so that strip(), float() *)
(* and format() really scan or build them) and as TLA+ strings where it    *)
(* only puts pieces together (paths, printed lines).                       *)
(*                                                                         *)
(* A binary64 number is modelled by a decimal floating-point number        *)
(* m * 10^e with a mantissa of four significant digits, rounded to nearest *)
(* with ties to even after every operation, plus signed zero and nan.      *)
(***************************************************************************)
EXTENDS Integers, Sequences, FiniteSets, TLC

----------------------------------------------------------------------------
(* Program constants (analysis.py lines 3-5). *)

folder == "results"

number_sizes == <<"32", "256K", "1M", "16M">>

n_procs == <<"1", "2", "4", "8">>

(* The precision of the "{:.3e}" format specification. *)
FormatPrecision == 3

(* The f-string of the open() call. *)
Path(size, procs) == folder \o "/n" \o size \o "-p" \o procs \o ".txt"

----------------------------------------------------------------------------
(* Floating-point numbers. *)

(* The number of significant decimal digits of the modelled numbers: as    *)
(* many as the format prints, the most whose products stay below 2^31.     *)
SigDigits == FormatPrecision + 1

(* Mantissas of finite non-zero numbers lie in MantMin .. MantLimit - 1. *)
MantLimit == 10 ^ SigDigits

MantMin == 10 ^ (SigDigits - 1)

NaN == [k |-> "nan", neg |-> FALSE, m |-> 0, e |-> 0]

Zero(neg) == [k |-> "num", neg |-> neg, m |-> 0, e |-> 0]

Fin(neg, m, e) == [k |-> "num", neg |-> neg, m |-> m, e |-> e]

IsNaN(x) == x.k = "nan"

IsZero(x) == x.k = "num" /\ x.m = 0

NumDigits(m) ==
    IF m < 10 THEN 1
    ELSE IF m < 100 THEN 2
    ELSE IF m < 1000 THEN 3
    ELSE IF m < 10000 THEN 4
    ELSE IF m < 100000 THEN 5
    ELSE IF m < 1000000 THEN 6
    ELSE IF m < 10000000 THEN 7
    ELSE IF m < 100000000 THEN 8
    ELSE IF m < 1000000000 THEN 9
    ELSE 10

(* The nearest number of w significant digits to m * 10^e (plus a positive *)
(* amount below one unit of 10^e when sticky), ties to even.               *)
RoundTo(neg, m, e, sticky, w) ==
    IF m = 0 THEN Zero(neg)
    ELSE LET d == NumDigits(m)
         IN  IF d <= w
             THEN Fin(neg, m * 10 ^ (w - d), e - (w - d))
             ELSE LET sh   == d - w
                      p    == 10 ^ sh
                      q    == m \div p
                      r    == m % p
                      half == p \div 2
                      up   == r > half \/ (r = half /\ (sticky \/ q % 2 = 1))
                      q2   == IF up THEN q + 1 ELSE q
                  IN  IF q2 = 10 ^ w
                      THEN Fin(neg, 10 ^ (w - 1), e + sh + 1)
                      ELSE Fin(neg, q2, e + sh)

FRound(neg, m, e, sticky) == RoundTo(neg, m, e, sticky, SigDigits)

FNeg(x) == IF IsNaN(x) THEN NaN ELSE [x EXCEPT !.neg = ~x.neg]

SignedMant(x, em) == (IF x.neg THEN -1 ELSE 1) * x.m * 10 ^ (x.e - em)

Abs(n) == IF n < 0 THEN -n ELSE n

Min(a, b) == IF a < b THEN a ELSE b

(* x + y.  An operand more than five decades below the other is less than  *)
(* a hundredth of its last place and does not change it.                   *)
FAdd(x, y) ==
    IF IsNaN(x) \/ IsNaN(y) THEN NaN
    ELSE IF IsZero(x) /\ IsZero(y) THEN Zero(x.neg /\ y.neg)
    ELSE IF IsZero(x) THEN y
    ELSE IF IsZero(y) THEN x
    ELSE IF x.e - y.e > 5 THEN x
    ELSE IF y.e - x.e > 5 THEN y
    ELSE LET em == Min(x.e, y.e)
             s  == SignedMant(x, em) + SignedMant(y, em)
         IN  IF s = 0 THEN Zero(FALSE) ELSE FRound(s < 0, Abs(s), em, FALSE)

FSub(x, y) == FAdd(x, FNeg(y))

FMul(x, y) ==
    IF IsNaN(x) \/ IsNaN(y) THEN NaN
    ELSE FRound(x.neg # y.neg, x.m * y.m, x.e + y.e, FALSE)

(* x / n for a count n >= 0.  The only division by zero the script can     *)
(* reach divides the empty sum 0.0 by the count 0, which is nan.           *)
FDivCount(x, n) ==
    IF IsNaN(x) \/ n = 0 THEN NaN
    ELSE IF IsZero(x) THEN x
    ELSE LET num == x.m * 10 ^ 5
         IN  FRound(x.neg, num \div n, x.e - 5, num % n # 0)

RECURSIVE ISqrt(_, _, _)
(* The largest r in lo .. hi with r * r <= n (lo * lo <= n < (hi+1)^2). *)
ISqrt(n, lo, hi) ==
    IF lo = hi THEN lo
    ELSE LET mid == (lo + hi + 1) \div 2
         IN  IF mid * mid <= n THEN ISqrt(n, mid, hi) ELSE ISqrt(n, lo, mid - 1)

FSqrt(x) ==
    IF IsNaN(x) THEN NaN
    ELSE IF IsZero(x) THEN x
    ELSE IF x.neg THEN NaN
    ELSE LET odd  == x.e % 2 = 1
             n    == IF odd THEN x.m * 10 ^ 3 ELSE x.m * 10 ^ 4
             en   == IF odd THEN x.e - 3 ELSE x.e - 4
             r    == ISqrt(n, MantMin, MantLimit - 1)
             root == IF n - r * r > r THEN r + 1 ELSE r
         IN  FRound(FALSE, root, en \div 2, FALSE)

----------------------------------------------------------------------------
(* str.strip() and float() (line 11). *)

Whitespace == {" ", "\t", "\n", "\r"}

DigitChars == <<"0", "1", "2", "3", "4", "5", "6", "7", "8", "9">>

IsDigit(c) == \E i \in 1..10 : DigitChars[i] = c

DigitVal(c) == (CHOOSE i \in 1..10 : DigitChars[i] = c) - 1

RECURSIVE StripLeft(_)
StripLeft(s) ==
    IF s # <<>> /\ Head(s) \in Whitespace THEN StripLeft(Tail(s)) ELSE s

RECURSIVE StripRight(_)
StripRight(s) ==
    IF s # <<>> /\ s[Len(s)] \in Whitespace
    THEN StripRight(SubSeq(s, 1, Len(s) - 1))
    ELSE s

Strip(s) == StripRight(StripLeft(s))

RECURSIVE DigitsValue(_)
(* The integer written by the digits of s, its other characters skipped. *)
DigitsValue(s) ==
    IF s = <<>> THEN 0
    ELSE LET init == SubSeq(s, 1, Len(s) - 1)
             c    == s[Len(s)]
         IN  IF IsDigit(c) THEN 10 * DigitsValue(init) + DigitVal(c)
             ELSE DigitsValue(init)

CountDigits(s) == Cardinality({i \in 1..Len(s) : IsDigit(s[i])})

Dots(s) == {i \in 1..Len(s) : s[i] = "."}

(* float(s): [ok, val].  Accepted here: an optional sign followed by nan,  *)
(* or by decimal digits with at most one point and at least one digit.     *)
ParseFloat(s) ==
    LET signed == s # <<>> /\ Head(s) \in {"+", "-"}
        neg    == s # <<>> /\ Head(s) = "-"
        body   == IF signed THEN Tail(s) ELSE s
        frac   == IF Dots(body) = {} THEN 0
                  ELSE Len(body) - (CHOOSE i \in Dots(body) : TRUE)
    IN  IF body = <<"n", "a", "n">> THEN [ok |-> TRUE, val |-> NaN]
        ELSE IF /\ \A i \in 1..Len(body) : IsDigit(body[i]) \/ body[i] = "."
                /\ Cardinality(Dots(body)) <= 1
                /\ CountDigits(body) >= 1
        THEN [ok |-> TRUE,
              val |-> FRound(neg, DigitsValue(body), -frac, FALSE)]
        ELSE [ok |-> FALSE, val |-> NaN]

----------------------------------------------------------------------------
(* np.mean and np.std (lines 14 and 17). *)

RECURSIVE FSum(_)
(* The sum of a list, accumulated left to right; 0.0 for the empty list. *)
FSum(xs) ==
    IF xs = <<>> THEN Zero(FALSE)
    ELSE IF Len(xs) = 1 THEN xs[1]
    ELSE FAdd(FSum(SubSeq(xs, 1, Len(xs) - 1)), xs[Len(xs)])

MeanOfEmptyIsZero(xs) ==
    IF xs = <<>> THEN Zero(FALSE) ELSE FDivCount(FSum(xs), Len(xs))

Mean(xs) == FDivCount(FSum(xs), Len(xs))

(* The mean of the squared deviations from the mean, the divisor being the *)
(* count less ddof (and never negative).                                   *)
Var(xs, ddof) ==
    LET arrmean == FDivCount(FSum(xs), Len(xs))
        sq      == [i \in 1..Len(xs) |->
                       FMul(FSub(xs[i], arrmean), FSub(xs[i], arrmean))]
        rcount  == IF Len(xs) - ddof > 0 THEN Len(xs) - ddof ELSE 0
    IN  FDivCount(FSum(sq), rcount)

StdSample(xs) == FSqrt(Var(xs, 1))

Std(xs) == FSqrt(Var(xs, 0))

----------------------------------------------------------------------------
(* "{:.3e}".format (lines 20-21). *)

RECURSIVE DigitsChars(_, _)
(* n written with exactly width decimal digits, zero-padded. *)
DigitsChars(n, width) ==
    IF width = 0 THEN <<>>
    ELSE Append(DigitsChars(n \div 10, width - 1), DigitChars[(n % 10) + 1])

(* The characters of the e-format of x with prec digits after the point.   *)
FormatE(x, prec) ==
    IF IsNaN(x) THEN <<"n", "a", "n">>
    ELSE LET r    == RoundTo(x.neg, x.m, x.e, FALSE, prec + 1)
             mant == r.m
             ex   == IF r.m = 0 THEN 0 ELSE r.e + prec
             wid  == IF NumDigits(Abs(ex)) < 2 THEN 2 ELSE NumDigits(Abs(ex))
         IN  (IF r.neg THEN <<"-">> ELSE <<>>)
             \o DigitsChars(mant \div 10 ^ prec, 1)
             \o <<".">>
             \o DigitsChars(mant % 10 ^ prec, prec)
             \o <<"e">>
             \o (IF ex < 0 THEN <<"-">> ELSE <<"+">>)
             \o DigitsChars(Abs(ex), wid)

FormatTwoDigits(x) == FormatE(x, FormatPrecision - 1)

Format(x) == FormatE(x, FormatPrecision)

RECURSIVE Join(_)
(* The string made of the characters of cs. *)
Join(cs) == IF cs = <<>> THEN "" ELSE Head(cs) \o Join(Tail(cs))

----------------------------------------------------------------------------
(* The files the script may find. *)

(* The most lines of the file that differs from the others. *)
MaxLines == 2

Line10 == <<"1", ".", "0", "\n">>

Line20 == <<"2", ".", "0", "\n">>

Line30 == <<"3", ".", "0", "\n">>

LinePadded50 == <<" ", "5", ".", "0", " ", "\n">>

LineAbc == <<"a", "b", "c", "\n">>

LineBlank == <<"\n">>

LineNan == <<"n", "a", "n", "\n">>

ProbeLines == {Line10, LinePadded50, LineAbc, LineBlank, LineNan}

BaselineFile == <<Line10, Line20, Line30>>

Contents == UNION {[1..n -> ProbeLines] : n \in 0..MaxLines}

Grid == (1..Len(number_sizes)) \X (1..Len(n_procs))

PathOf(g) == Path(number_sizes[g[1]], n_procs[g[2]])

AllPaths == {PathOf(g) : g \in Grid}

(* A directory maps the paths that exist to the lines of the file.  Every  *)
(* file is the baseline file, but for at most one, which holds any of      *)
(* Contents or is missing.                                                 *)
FileSystems ==
    {[p \in AllPaths |-> BaselineFile]}
    \cup {[p \in AllPaths |-> IF p = q THEN c ELSE BaselineFile] :
             q \in AllPaths, c \in Contents}
    \cup {[p \in AllPaths \ {q} |-> BaselineFile] : q \in AllPaths}

----------------------------------------------------------------------------
(* The script as a state machine. *)

VARIABLES
    fs,          \* the directory: path -> lines, for the files that exist
    pc,          \* the statement the script is at
    si,          \* position of the outer loop in number_sizes (0: not begun)
    pj,          \* position of the inner loop in n_procs
    openFiles,   \* paths of the file objects that are open
    pos,         \* lines of the open file already consumed
    acc,         \* the list the comprehension is building
    exc,         \* the exception being raised, "none" when there is none
    numbers, average, standard_deviation,
    formatted_average, formatted_standard_deviation,
    out,         \* standard output, a sequence of lines
    opened       \* history: the paths open() succeeded on, in order

vars == <<fs, pc, si, pj, openFiles, pos, acc, exc, numbers, average,
          standard_deviation, formatted_average,
          formatted_standard_deviation, out, opened>>

ctl == <<si, pj>>

io == <<openFiles, pos, acc, opened>>

stats == <<numbers, average, standard_deviation>>

fmts == <<formatted_average, formatted_standard_deviation>>

sizeReversed == number_sizes[Len(number_sizes) + 1 - si]

size == number_sizes[si]

procs == n_procs[pj]

path == Path(size, procs)

(* Names not yet assigned hold the empty list, nan and the empty text. *)
InitRest ==
    /\ pc = "for_size"
    /\ si = 0
    /\ pj = 0
    /\ openFiles = {}
    /\ pos = 0
    /\ acc = <<>>
    /\ exc = "none"
    /\ numbers = <<>>
    /\ average = NaN
    /\ standard_deviation = NaN
    /\ formatted_average = <<>>
    /\ formatted_standard_deviation = <<>>
    /\ out = <<>>
    /\ opened = <<>>

Init ==
    /\ fs \in FileSystems
    /\ InitRest

(* for size in number_sizes: *)
ForSize ==
    /\ pc = "for_size"
    /\ IF si < Len(number_sizes)
       THEN si' = si + 1 /\ pj' = 0 /\ pc' = "for_procs"
       ELSE pc' = "done" /\ UNCHANGED ctl
    /\ UNCHANGED <<fs, io, exc, stats, fmts, out>>

ForProcsSkipsLast ==
    /\ pc = "for_procs"
    /\ IF pj < Len(n_procs) - 1
       THEN pj' = pj + 1 /\ pc' = "open"
       ELSE pj' = pj /\ pc' = "for_size"
    /\ UNCHANGED <<fs, si, io, exc, stats, fmts, out>>

(* for procs in n_procs: *)
ForProcs ==
    /\ pc = "for_procs"
    /\ IF pj < Len(n_procs)
       THEN pj' = pj + 1 /\ pc' = "open"
       ELSE pj' = pj /\ pc' = "for_size"
    /\ UNCHANGED <<fs, si, io, exc, stats, fmts, out>>

OpenPrintsHeader ==
    /\ pc = "open"
    /\ path \in DOMAIN fs
    /\ openFiles' = openFiles \cup {path}
    /\ pos' = 0
    /\ acc' = <<>>
    /\ opened' = Append(opened, path)
    /\ out' = Append(out, "Numbers: " \o size \o " - Processes: " \o procs)
    /\ pc' = "read"
    /\ UNCHANGED <<fs, ctl, exc, stats, fmts>>

(* with open(path, 'r') as file: the file exists. *)
Open ==
    /\ pc = "open"
    /\ path \in DOMAIN fs
    /\ openFiles' = openFiles \cup {path}
    /\ pos' = 0
    /\ acc' = <<>>
    /\ opened' = Append(opened, path)
    /\ pc' = "read"
    /\ UNCHANGED <<fs, ctl, exc, stats, fmts, out>>

OpenFailsSkipsPair ==
    /\ pc = "open"
    /\ path \notin DOMAIN fs
    /\ pc' = "for_procs"
    /\ UNCHANGED <<fs, ctl, io, exc, stats, fmts, out>>

(* open() raises FileNotFoundError; nothing catches it. *)
OpenFails ==
    /\ pc = "open"
    /\ path \notin DOMAIN fs
    /\ exc' = "FileNotFoundError"
    /\ pc' = "aborted"
    /\ UNCHANGED <<fs, ctl, io, stats, fmts, out>>

line == fs[path][pos + 1]

(* One turn of the comprehension: float(line.strip()) succeeds. *)
ReadLine ==
    /\ pc = "read"
    /\ pos < Len(fs[path])
    /\ ParseFloat(Strip(line)).ok
    /\ acc' = Append(acc, ParseFloat(Strip(line)).val)
    /\ pos' = pos + 1
    /\ UNCHANGED <<fs, pc, ctl, openFiles, opened, exc, stats, fmts, out>>

ReadLineFailsSkipsLine ==
    /\ pc = "read"
    /\ pos < Len(fs[path])
    /\ ~ParseFloat(Strip(line)).ok
    /\ pos' = pos + 1
    /\ UNCHANGED <<fs, pc, ctl, openFiles, acc, opened, exc, stats, fmts, out>>

(* float() raises ValueError inside the with block. *)
ReadLineFails ==
    /\ pc = "read"
    /\ pos < Len(fs[path])
    /\ ~ParseFloat(Strip(line)).ok
    /\ exc' = "ValueError"
    /\ pc' = "exit_with"
    /\ UNCHANGED <<fs, ctl, io, stats, fmts, out>>

(* The file is exhausted: numbers = [...] is assigned. *)
ReadEnd ==
    /\ pc = "read"
    /\ pos = Len(fs[path])
    /\ numbers' = acc
    /\ pc' = "exit_with"
    /\ UNCHANGED <<fs, ctl, io, exc, average, standard_deviation, fmts, out>>

ExitWithLeaksOnError ==
    /\ pc = "exit_with"
    /\ openFiles' = IF exc = "none" THEN openFiles \ {path} ELSE openFiles
    /\ pc' = IF exc = "none" THEN "mean" ELSE "aborted"
    /\ UNCHANGED <<fs, ctl, pos, acc, opened, exc, stats, fmts, out>>

(* Leaving the with block closes the file, an exception or none; an        *)
(* exception then goes on to end the script.                               *)
ExitWith ==
    /\ pc = "exit_with"
    /\ openFiles' = openFiles \ {path}
    /\ pc' = IF exc = "none" THEN "mean" ELSE "aborted"
    /\ UNCHANGED <<fs, ctl, pos, acc, opened, exc, stats, fmts, out>>

(* average = np.mean(numbers) *)
ComputeMean ==
    /\ pc = "mean"
    /\ average' = Mean(numbers)
    /\ pc' = "std"
    /\ UNCHANGED <<fs, ctl, io, exc, numbers, standard_deviation, fmts, out>>

(* standard_deviation = np.std(numbers) *)
ComputeStd ==
    /\ pc = "std"
    /\ standard_deviation' = Std(numbers)
    /\ pc' = "fmt_avg"
    /\ UNCHANGED <<fs, ctl, io, exc, numbers, average, fmts, out>>

FormatAverage ==
    /\ pc = "fmt_avg"
    /\ formatted_average' = Format(average)
    /\ pc' = "fmt_std"
    /\ UNCHANGED <<fs, ctl, io, exc, stats, formatted_standard_deviation, out>>

FormatStd ==
    /\ pc = "fmt_std"
    /\ formatted_standard_deviation' = Format(standard_deviation)
    /\ pc' = "print_numbers"
    /\ UNCHANGED <<fs, ctl, io, exc, stats, formatted_average, out>>

NumbersLine(sz, pr) == "Numbers: " \o sz \o " - Processes: " \o pr

AverageLine(f) == "Average: " \o Join(f)

StdLine(f) == "Standard Deviation: " \o Join(f)

PrintNumbers ==
    /\ pc = "print_numbers"
    /\ out' = Append(out, NumbersLine(size, procs))
    /\ pc' = "print_average"
    /\ UNCHANGED <<fs, ctl, io, exc, stats, fmts>>

PrintAverageOfStd ==
    /\ pc = "print_average"
    /\ out' = Append(out, AverageLine(formatted_standard_deviation))
    /\ pc' = "print_std"
    /\ UNCHANGED <<fs, ctl, io, exc, stats, fmts>>

PrintAverage ==
    /\ pc = "print_average"
    /\ out' = Append(out, AverageLine(formatted_average))
    /\ pc' = "print_std"
    /\ UNCHANGED <<fs, ctl, io, exc, stats, fmts>>

PrintStd ==
    /\ pc = "print_std"
    /\ out' = Append(out, StdLine(formatted_standard_deviation))
    /\ pc' = "print_blank"
    /\ UNCHANGED <<fs, ctl, io, exc, stats, fmts>>

(* print(), the last statement of the inner loop's body. *)
PrintBlank ==
    /\ pc = "print_blank"
    /\ out' = Append(out, "")
    /\ pc' = "for_procs"
    /\ UNCHANGED <<fs, ctl, io, exc, stats, fmts>>

Next ==
    \/ ForSize
    \/ ForProcs
    \/ Open
    \/ OpenFails
    \/ ReadLine
    \/ ReadLineFails
    \/ ReadEnd
    \/ ExitWith
    \/ ComputeMean
    \/ ComputeStd
    \/ FormatAverage
    \/ FormatStd
    \/ PrintNumbers
    \/ PrintAverage
    \/ PrintStd
    \/ PrintBlank

Spec == Init /\ [][Next]_vars

----------------------------------------------------------------------------
(* Vocabulary of the properties. *)

Range(f) == {f[i] : i \in DOMAIN f}

Terminated == pc \in {"done", "aborted"}

(* The place of a pair in size-major order, 1 for the first. *)
Rank(i, j) == (i - 1) * Len(n_procs) + j

PairAt(k) == <<((k - 1) \div Len(n_procs)) + 1, ((k - 1) % Len(n_procs)) + 1>>

Here == Rank(si, pj)

NumbersLineOf ==
    [g \in Grid |-> NumbersLine(number_sizes[g[1]], n_procs[g[2]])] @@ <<>>

(* The path of every pair, computed once. *)
PathOfPair == [g \in Grid |-> PathOf(g)] @@ <<>>

Exists(g) == PathOfPair[g] \in DOMAIN fs

LineParses(l) == ParseFloat(Strip(l)).ok

(* For every file of FileSystems, computed once: some line is rejected. *)
HasBadLine ==
    [c \in Contents \cup {BaselineFile} |-> \E l \in Range(c) : ~LineParses(l)]
    @@ <<>>

BadLines(g) == Exists(g) /\ HasBadLine[fs[PathOfPair[g]]]

EmptyFile(g) == Exists(g) /\ fs[PathOfPair[g]] = <<>>

Failing(g) == ~Exists(g) \/ BadLines(g)

AllGood == \A g \in Grid : ~Failing(g)

(* The values float() gives for the lines of a file all of whose lines parse. *)
ParsedFile(c) == [i \in 1..Len(c) |-> ParseFloat(Strip(c[i])).val]

Parsed(g) == ParsedFile(fs[PathOfPair[g]])

(* The pairs whose Numbers line is on standard output, in output order. *)
NumbersLines == Range(NumbersLineOf)

IsNumbersLine(l) == l \in NumbersLines

PairOfLine(l) == CHOOSE g \in Grid : NumbersLineOf[g] = l

Reported == SelectSeq(out, IsNumbersLine)

ReportedPairs ==
    LET r == Reported
    IN  [a \in 1..Len(r) |-> PairOfLine(r[a])]

Before(g, h) == g[1] < h[1] \/ (g[1] = h[1] /\ g[2] < h[2])

(* C1: of any two blocks on standard output, the one printed first is the  *)
(* one of the pair that comes first in size-major order: earlier size      *)
(* label, or the same size label and earlier procs label.                  *)
C1_SizeMajorOrder ==
    LET r == ReportedPairs
    IN  \A a, b \in 1..Len(r) : a < b => Before(r[a], r[b])

C1_Witness ==
    LET r == ReportedPairs
    IN  /\ Len(r) >= Len(n_procs) + 2
        /\ r[1][1] # r[Len(r)][1]

(* C2: a missing file aborts the run at its pair with a file-access error: *)
(* the script never gets past that pair's open(), never ends normally, and *)
(* neither that pair nor any later pair is opened or reported.             *)
C2_MissingFileAborts ==
    \A g \in Grid :
        ~Exists(g) =>
            /\ pc # "done"
            /\ Here <= Rank(g[1], g[2])
            /\ <<si, pj>> = g => pc \in {"open", "aborted"}
            /\ (<<si, pj>> = g /\ pc = "aborted") => exc = "FileNotFoundError"
            /\ \A h \in Grid :
                   ~Before(h, g) =>
                       /\ PathOfPair[h] \notin Range(opened)
                       /\ NumbersLineOf[h] \notin Range(out)
                       /\ PathOfPair[h] \notin openFiles

C2_Witness ==
    /\ pc = "aborted"
    /\ exc = "FileNotFoundError"
    /\ Here < Cardinality(Grid)
    /\ out # <<>>

(* C3: a file with a line that float() rejects aborts the run with a parse *)
(* error before any output line of its pair is printed, and no later pair  *)
(* is opened or reported.                                                  *)
C3_ParseFailureAborts ==
    \A g \in Grid :
        BadLines(g) =>
            /\ pc # "done"
            /\ Here <= Rank(g[1], g[2])
            /\ Len(out) <= 4 * (Rank(g[1], g[2]) - 1)
            /\ NumbersLineOf[g] \notin Range(out)
            /\ <<si, pj>> = g => pc \in {"open", "read", "exit_with", "aborted"}
            /\ (<<si, pj>> = g /\ pc = "aborted") => exc = "ValueError"
            /\ \A h \in Grid :
                   Before(g, h) =>
                       /\ PathOfPair[h] \notin Range(opened)
                       /\ NumbersLineOf[h] \notin Range(out)

C3_Witness ==
    /\ pc = "aborted"
    /\ exc = "ValueError"
    /\ pos >= 1
    /\ fs[path][pos + 1] = LineBlank
    /\ out # <<>>
    /\ Here < Cardinality(Grid)

FirstFailing == CHOOSE g \in Grid : Failing(g) /\ \A h \in Grid : Before(h, g) => ~Failing(h)

(* C4: when every file exists and every line parses the run never aborts  *)
(* and, when it ends, has printed exactly one block per pair of the grid;  *)
(* otherwise it never ends normally, and where it aborts is the first pair *)
(* in grid order that fails.                                               *)
C4_FullGridOrAbort ==
    IF AllGood
    THEN
           /\ pc # "aborted"
           /\ exc = "none"
           /\ pc = "done" =>
                  LET r == ReportedPairs
                  IN  /\ Len(out) = 4 * Cardinality(Grid)
                      /\ Len(r) = Cardinality(Grid)
                      /\ \A g \in Grid :
                             Cardinality({a \in 1..Len(r) : r[a] = g}) = 1
    ELSE   /\ pc # "done"
           /\ pc = "aborted" => (exc # "none" /\ <<si, pj>> = FirstFailing)

C4_Witness ==
    /\ pc = "done"
    /\ Len(out) = 4 * Len(number_sizes) * Len(n_procs)
    /\ \E g \in Grid : fs[PathOfPair[g]] = <<Line10, LinePadded50>>

----------------------------------------------------------------------------
(* Exact arithmetic for the statistics. *)

(* The integer nearest to x * 10^k, for a finite x. *)
Scaled(x, k) ==
    LET sh == x.e + k
        a  == IF sh >= 0 THEN x.m * 10 ^ sh
              ELSE IF -sh > 9 THEN 0
              ELSE (x.m + (10 ^ (-sh)) \div 2) \div 10 ^ (-sh)
    IN  IF x.neg THEN -a ELSE a

RECURSIVE SumInt(_)
SumInt(ns) == IF ns = <<>> THEN 0 ELSE Head(ns) + SumInt(Tail(ns))

Finite(xs) == \A i \in 1..Len(xs) : ~IsNaN(xs[i])

(* The values of xs in tenths; the lines of the files hold whole tenths. *)
Tenths(xs) == [i \in 1..Len(xs) |-> Scaled(xs[i], 1)]

(* a is within 0.001 of (sum of xs) / N. *)
IsMeanOf(a, xs) ==
    LET n == Len(xs)
        t == SumInt(Tenths(xs))
    IN  /\ ~IsNaN(a)
        /\ Abs(Scaled(a, 3) * n * 10 - t * 1000) <= n * 10

(* s is within 0.01 of sqrt((sum of (xs[i] - mean)^2) / N), mean the exact *)
(* mean: with d[i] = N * tenths[i] - sum of tenths, the variance is        *)
(* (sum of d[i]^2) / (100 * N^3).                                          *)
IsPopulationStdOf(s, xs) ==
    LET n  == Len(xs)
        ts == Tenths(xs)
        t  == SumInt(ts)
        q  == SumInt([i \in 1..n |-> (n * ts[i] - t) * (n * ts[i] - t)])
        h  == Scaled(s, 2)
        lo == IF h >= 1 THEN h - 1 ELSE 0
    IN  /\ ~IsNaN(s)
        /\ ~s.neg
        /\ lo * lo * n * n * n <= 100 * q
        /\ 100 * q <= (h + 1) * (h + 1) * n * n * n

StatsReady ==
    pc \in {"fmt_avg", "fmt_std", "print_numbers", "print_average",
            "print_std", "print_blank"}

C6_EmptyFileIsFatal ==
    \A g \in Grid :
        EmptyFile(g) => (pc # "done" /\ NumbersLineOf[g] \notin Range(out))

(* C6 as amended: an empty file raises nothing.  Its sample is the empty   *)
(* list, both statistics are nan, its block is printed with nan in both    *)
(* places and the run goes on to the later pairs.                          *)
C6_EmptyFileReportsNan ==
    \A g \in Grid :
        EmptyFile(g) =>
            LET k == Rank(g[1], g[2])
            IN  /\ <<si, pj>> = g => (exc = "none" /\ pc # "aborted")
                /\ (<<si, pj>> = g /\ StatsReady) =>
                       (numbers = <<>> /\ IsNaN(average) /\ IsNaN(standard_deviation))
                /\ (Here > k \/ pc = "done") => Len(out) >= 4 * k
                /\ Len(out) >= 4 * k =>
                       /\ out[4 * k - 3] = NumbersLineOf[g]
                       /\ out[4 * k - 2] = "Average: nan"
                       /\ out[4 * k - 1] = "Standard Deviation: nan"
                       /\ out[4 * k] = ""

C6_Witness ==
    \E g \in Grid :
        /\ EmptyFile(g)
        /\ Here > Rank(g[1], g[2])
        /\ pc = "read"
        /\ NumbersLineOf[g] \in Range(out)

Computing ==
    pc \in {"mean", "std", "fmt_avg", "fmt_std", "print_numbers",
            "print_average", "print_std", "print_blank"}

(* C7: never more than one file open; a file is open only while its pair   *)
(* is being read; it is fully read and closed before that pair's           *)
(* statistics are computed or printed and before the loops move on; and    *)
(* none is open once the run has ended, normally or not.                   *)
C7_FileScoped ==
    /\ Cardinality(openFiles) <= 1
    /\ openFiles # {} => (pc \in {"read", "exit_with"} /\ openFiles = {path})
    /\ pc = "read" => openFiles = {path}
    /\ Computing => (openFiles = {} /\ pos = Len(fs[path]))
    /\ pc \in {"for_size", "for_procs", "open"} => openFiles = {}
    /\ Terminated => openFiles = {}

C7_Witness ==
    /\ pc = "aborted"
    /\ exc = "ValueError"
    /\ pos >= 1
    /\ openFiles = {}
    /\ path \in Range(opened)

(* For every file of FileSystems all of whose lines parse, computed once:  *)
(* the Average line and the Standard Deviation line of its statistics.     *)
StatLinesOf ==
    [c \in Contents \cup {BaselineFile} |->
        IF HasBadLine[c] THEN <<>>
        ELSE <<AverageLine(Format(Mean(ParsedFile(c)))),
               StdLine(Format(Std(ParsedFile(c))))>>]
    @@ <<>>

(* The two lines that follow the Numbers line of pair g. *)
ExpectedAverageLine(g) == StatLinesOf[fs[PathOfPair[g]]][1]

ExpectedStdLine(g) == StatLinesOf[fs[PathOfPair[g]]][2]

(* C8: standard output is a sequence of blocks of four lines, the last     *)
(* possibly unfinished: the Numbers line of a pair, the Average line and   *)
(* the Standard Deviation line of the statistics of that same pair's file, *)
(* and an empty line.                                                      *)
C8_BlockFormat ==
    \A b \in 1..((Len(out) + 3) \div 4) :
        LET first == 4 * b - 3
            g     == PairOfLine(out[first])
        IN  /\ IsNumbersLine(out[first])
            /\ Len(out) >= first + 1 => out[first + 1] = ExpectedAverageLine(g)
            /\ Len(out) >= first + 2 => out[first + 2] = ExpectedStdLine(g)
            /\ Len(out) >= first + 3 => out[first + 3] = ""

C8_Witness ==
    /\ pc = "for_procs"
    /\ Len(out) >= 8
    /\ fs[path] = <<LinePadded50>>
    /\ out[Len(out) - 2] = "Average: 5.000e+00"
    /\ out[Len(out) - 1] = "Standard Deviation: 0.000e+00"
    /\ out[Len(out)] = ""

(* C10: whenever an exception is in flight or the run has ended, standard  *)
(* output holds whole blocks only; a run that aborts at the k-th pair of   *)
(* the grid has printed the blocks of the k-1 pairs before it, in order,   *)
(* and a run that ends normally those of the whole grid.                   *)
C10_WholeBlocksPrefix ==
    (exc # "none" \/ Terminated) =>
        LET k == IF pc = "done" THEN Cardinality(Grid) + 1 ELSE Here
        IN  /\ Len(out) = 4 * (k - 1)
            /\ \A b \in 1..(k - 1) :
                   /\ out[4 * b - 3] = NumbersLineOf[PairAt(b)]
                   /\ out[4 * b] = ""

C10_Witness ==
    /\ pc = "aborted"
    /\ exc = "ValueError"
    /\ Len(out) >= 4
    /\ Len(out) < 4 * Cardinality(Grid) - 4

----------------------------------------------------------------------------
(* The two format statements alone, on numbers of any magnitude. *)

(* The largest decimal exponent of the numbers drawn, in absolute value. *)
MaxExp == 12

(* Mantissas of up to six digits: the format has to round the longer ones, *)
(* some of them on a tie and some of them up to the next power of ten.     *)
FormatMantissas ==
    {0, 1, 5, 1000, 1234, 9999, 12345, 12355, 99994, 99995, 999949, 999950}

FormatExponents == (-MaxExp..MaxExp) \cup {-310, -100, 100, 300}

FormatInputs ==
    {NaN} \cup {Fin(neg, m, e) :
                   neg \in BOOLEAN, m \in FormatMantissas, e \in FormatExponents}

DeviationInputs == {NaN, Zero(FALSE), Fin(FALSE, 8165, -4), Fin(FALSE, 99995, 96)}

InitFormat ==
    /\ fs = [p \in AllPaths |-> BaselineFile]
    /\ pc = "fmt_avg"
    /\ si = 1
    /\ pj = 1
    /\ openFiles = {}
    /\ pos = Len(BaselineFile)
    /\ acc = <<>>
    /\ exc = "none"
    /\ numbers = <<>>
    /\ average \in FormatInputs
    /\ standard_deviation \in DeviationInputs
    /\ formatted_average = <<>>
    /\ formatted_standard_deviation = <<>>
    /\ out = <<>>
    /\ opened = <<PathOf(<<1, 1>>)>>

NextFormat == FormatAverage \/ FormatStd

FormatSpec == InitFormat /\ [][NextFormat]_vars

(* [sign] digit . FormatPrecision digits e sign, then two digits or more. *)
Scientific(cs) ==
    LET b == IF cs # <<>> /\ Head(cs) = "-" THEN Tail(cs) ELSE cs
        p == FormatPrecision
    IN  /\ Len(b) >= p + 6
        /\ IsDigit(b[1])
        /\ b[2] = "."
        /\ \A i \in 3..(p + 2) : IsDigit(b[i])
        /\ b[p + 3] = "e"
        /\ b[p + 4] \in {"+", "-"}
        /\ \A i \in (p + 5)..Len(b) : IsDigit(b[i])

AverageFormatted == pc \in {"fmt_std", "print_numbers"}

DeviationFormatted == pc = "print_numbers"

FormatExamples ==
    AverageFormatted =>
        /\ average = Fin(FALSE, 1, 5) => Join(formatted_average) = "1.000e+05"
        /\ average = Zero(FALSE) => Join(formatted_average) = "0.000e+00"
        /\ average = Fin(TRUE, 5, -4) => Join(formatted_average) = "-5.000e-04"

(* C9 as stated: every formatted mean and standard deviation is in         *)
(* scientific notation with three digits after the point, a signed         *)
(* exponent and two exponent digits or more; 100000.0, 0.0 and -0.0005     *)
(* give 1.000e+05, 0.000e+00 and -5.000e-04.                               *)
C9_AlwaysScientific ==
    /\ AverageFormatted => Scientific(formatted_average)
    /\ DeviationFormatted => Scientific(formatted_standard_deviation)
    /\ FormatExamples

(* C9 as amended: the same of every mean and standard deviation that is a  *)
(* number; one that is nan (as the statistics of an empty file are) is     *)
(* rendered as the three letters nan.                                      *)
C9_FiniteScientific ==
    /\ AverageFormatted =>
           IF IsNaN(average) THEN Join(formatted_average) = "nan"
           ELSE Scientific(formatted_average)
    /\ DeviationFormatted =>
           IF IsNaN(standard_deviation)
           THEN Join(formatted_standard_deviation) = "nan"
           ELSE Scientific(formatted_standard_deviation)
    /\ FormatExamples

C9_Witness ==
    /\ DeviationFormatted
    /\ average = Fin(TRUE, 5, -4)
    /\ Join(formatted_average) = "-5.000e-04"
    /\ standard_deviation = Fin(FALSE, 99995, 96)
    /\ Join(formatted_standard_deviation) = "1.000e+101"

============================================================================
